---------------------------- MODULE Spec2Model ----------------------------
(***************************************************************************)
(* Model of sync_strings.py: the synchronisation of the per-locale         *)
(* strings.xml files under app/src/main/res with the English one.          *)
(*                                                                         *)
(* A file is a sequence of tokens.  A token stands for the text it         *)
(* spells: "<string", " ", "name=", the double quote, ">", "</string",     *)
(* "\n", "\r", "TODO: ", plain words ("a", "hola", "<!--", "/"), and       *)
(* "0xFF", the single byte FF, which is not valid UTF-8.  The two regular  *)
(* expressions of the source are built from the literals <string, name=",  *)
(* ", > and </string> and from the classes \s, [^>], [^"] and . ; every    *)
(* token is either one of these literals (or half of one: name=" is        *)
(* "name=" then the quote, </string> is "</string" then ">") or a run of   *)
(* characters on which the classes agree, and no literal can start or end  *)
(* inside a token, so matching on tokens is matching on characters.        *)
(***************************************************************************)
EXTENDS Integers, Sequences, FiniteSets, TLC

LT      == "<string"
NAMEEQ  == "name="
QUOTE   == "\""
GT      == ">"
ETAG    == "</string"
LF      == "\n"
CR      == "\r"
SP      == " "
BADBYTE == "0xFF"

\* The literal prepended to an untranslated English value (line 78).
TODO == "TODO: "

--------------------------------------------------------------------------
\* Text input and output: open(..., 'r'/'w', encoding='utf-8').

\* The bytes decode as UTF-8 (f.read / f.readlines raise UnicodeDecodeError
\* otherwise).
Decodable(bytes) == \A i \in 1..Len(bytes) : bytes[i] # BADBYTE

\* Universal newlines on reading (newline=None): \r\n and a lone \r are
\* both handed to the program as \n.
RECURSIVE Universal(_)
Universal(bytes) ==
    IF bytes = <<>> THEN <<>>
    ELSE IF Head(bytes) = CR
         THEN IF Len(bytes) >= 2 /\ bytes[2] = LF
              THEN <<LF>> \o Universal(SubSeq(bytes, 3, Len(bytes)))
              ELSE <<LF>> \o Universal(Tail(bytes))
         ELSE <<Head(bytes)>> \o Universal(Tail(bytes))

\* f.read(): the decoded text of a file.
ReadText(bytes) == Universal(bytes)

\* The least index p >= from with text[p] = tok, 0 when there is none.
IndexFrom(text, from, tok) ==
    LET S == {p \in from..Len(text) : text[p] = tok}
    IN  IF S = {} THEN 0 ELSE CHOOSE p \in S : \A r \in S : p <= r

\* f.readlines(): the text cut after each \n; a last line without \n is a
\* line as well.
RECURSIVE SplitLines(_)
SplitLines(text) ==
    IF text = <<>> THEN <<>>
    ELSE LET n == IndexFrom(text, 1, LF)
         IN  IF n = 0 THEN <<text>>
             ELSE <<SubSeq(text, 1, n)>> \o SplitLines(SubSeq(text, n + 1, Len(text)))

\* f.writelines(new_lines): the lines one after the other.  On writing,
\* newline=None turns \n into os.linesep, which is \n on POSIX.
RECURSIVE WriteLines(_)
WriteLines(lines) ==
    IF lines = <<>> THEN <<>> ELSE Head(lines) \o WriteLines(Tail(lines))

--------------------------------------------------------------------------
\* The regular expressions of lines 21 and 51.  Both are
\*   <string\s+[^>]*name="([^"]+)"[^>]*>(.*?)</string>
\* line 21 with re.DOTALL and no groups around the tag, line 51 without
\* DOTALL and with five groups.

\* \s
IsSpace(tok) == tok \in {SP, LF, CR}

\* . : any character, a newline only under re.DOTALL
Dot(tok, dotall) == dotall \/ tok # LF

NoMatch == [found |-> FALSE, start |-> 0, name |-> 0, q |-> 0, g |-> 0,
            c |-> 0, stop |-> 0]

\* The match of  ([^"]+)"[^>]*>(.*?)</string>  from position k, which is
\* unique when there is one: [^"]+ runs to the first quote and is not
\* empty, [^>]* to the first ">", and the lazy .*? to the first </string>,
\* crossing a newline only under DOTALL.
AfterName(text, i, j, dotall) ==
    LET k == j + 2
        q == IndexFrom(text, k, QUOTE)
        g == IF q = 0 THEN 0 ELSE IndexFrom(text, q + 1, GT)
        C == IF g = 0 THEN {}
             ELSE {p \in (g + 1)..(Len(text) - 1) :
                      text[p] = ETAG /\ text[p + 1] = GT}
        c == IF C = {} THEN 0 ELSE CHOOSE p \in C : \A r \in C : p <= r
    IN  IF /\ q > k
           /\ g > 0
           /\ c > 0
           /\ \A r \in (g + 1)..(c - 1) : Dot(text[r], dotall)
        THEN [found |-> TRUE, start |-> i, name |-> j, q |-> q, g |-> g,
              c |-> c, stop |-> c + 2]
        ELSE NoMatch

\* The match that starts at position i.  After <string comes a space, then
\* \s+[^>]* takes anything but ">" up to name=" : both are greedy, so of the
\* places where name=" can stand the last one with a match after it wins.
MatchAt(text, i, dotall) ==
    IF ~(i + 1 <= Len(text) /\ text[i] = LT /\ IsSpace(text[i + 1]))
    THEN NoMatch
    ELSE LET J == {j \in (i + 2)..(Len(text) - 1) :
                      /\ text[j] = NAMEEQ
                      /\ text[j + 1] = QUOTE
                      /\ \A p \in (i + 2)..(j - 1) : text[p] # GT
                      /\ AfterName(text, i, j, dotall).found}
         IN  IF J = {} THEN NoMatch
             ELSE AfterName(text, i, CHOOSE j \in J : \A r \in J : r <= j, dotall)

\* pattern.search(text, from): the match at the leftmost position that has
\* one.
Search(text, from, dotall) ==
    LET S == {i \in from..Len(text) : MatchAt(text, i, dotall).found}
    IN  IF S = {} THEN NoMatch
        ELSE MatchAt(text, CHOOSE i \in S : \A r \in S : i <= r, dotall)

\* The groups of a match m in text.
TagHead(text, m)  == SubSeq(text, m.start, m.name + 1)     \* group 1 of line 51
KeyOf(text, m)    == SubSeq(text, m.name + 2, m.q - 1)     \* the name
TagTail(text, m)  == SubSeq(text, m.q, m.g)                \* group 3 of line 51
ValueOf(text, m)  == SubSeq(text, m.g + 1, m.c - 1)        \* the content
Closing(text, m)  == SubSeq(text, m.c, m.c + 1)            \* group 5 of line 51


--------------------------------------------------------------------------
\* load_translations (lines 8-29)

\* translations[name] = value (line 27): a later entry of the same name
\* replaces an earlier one.
Put(dict, key, value) ==
    [x \in (DOMAIN dict) \cup {key} |-> IF x = key THEN value ELSE dict[x]]

\* The loop over pattern.finditer(content) (lines 24-27): the matches from
\* left to right, each search starting where the last match stopped.
RECURSIVE Collect(_, _, _)
Collect(content, from, dict) ==
    LET m == Search(content, from, TRUE)
    IN  IF ~m.found THEN dict
        ELSE Collect(content, m.stop,
                     Put(dict, KeyOf(content, m), ValueOf(content, m)))

\* The dict {name: content} of a file: empty when the file does not exist
\* (lines 13-14), else what the pattern finds in its text.
load_translations(exists, bytes) ==
    IF ~exists THEN <<>> ELSE Collect(ReadText(bytes), 1, <<>>)

--------------------------------------------------------------------------
\* sync_file, the rewriting of the English lines (lines 51-83)

\* ExistingValue with the pending marker put before a translation as well.
ExistingValue_marked(current_translations, key) ==
    <<TODO>> \o current_translations[key]

\* The value written for a key that has a translation (line 69).
ExistingValue(current_translations, key) == current_translations[key]

\* PendingValue without the marker.
PendingValue_unmarked(english_value) == english_value

\* The value written for a key that has none (lines 74-78).
PendingValue(english_value) == <<TODO>> \o english_value

\* The line written for one English line (the body of the loop, lines 54-83).
new_line(line, current_translations) ==
    LET match == Search(line, 1, FALSE)
    IN  IF match.found
        THEN LET prefix_start == TagHead(line, match)
                 key          == KeyOf(line, match)
                 prefix_end   == TagTail(line, match)
                 suffix       == Closing(line, match)
                 line_start   == SubSeq(line, 1, match.start - 1)
                 line_end     == SubSeq(line, match.stop, Len(line))
                 value        == IF key \in DOMAIN current_translations
                                 THEN ExistingValue(current_translations, key)
                                 ELSE PendingValue(ValueOf(line, match))
             IN  line_start \o prefix_start \o key \o prefix_end \o value
                     \o suffix \o line_end
        ELSE line

\* new_lines with the entries of the target that no English line names
\* kept, one of them on a line after the English ones.
new_lines_keeping(lines, current_translations) ==
    LET named == {l \in {lines[n] : n \in 1..Len(lines)} : Search(l, 1, FALSE).found}
        stale == {k \in DOMAIN current_translations :
                     \A l \in named : KeyOf(l, Search(l, 1, FALSE)) # k}
        kept  == IF stale = {} THEN <<>>
                 ELSE LET k == CHOOSE k \in stale : TRUE
                      IN  << <<LT, SP, NAMEEQ, QUOTE>> \o k \o <<QUOTE, GT>>
                               \o current_translations[k] \o <<ETAG, GT, LF>> >>
    IN  [n \in 1..Len(lines) |-> new_line(lines[n], current_translations)] \o kept

\* new_lines after the loop of lines 53-83: one line for each English line.
new_lines(lines, current_translations) ==
    [n \in 1..Len(lines) |-> new_line(lines[n], current_translations)]

--------------------------------------------------------------------------
\* The resource tree.  A directory name is a sequence of words; the words
\* below spell app/src/main/res/values, .../values-fr, .../values-de,
\* .../drawable and .../values-notes.

VALUES   == <<"values">>
FR       == <<"values-", "fr">>
DE       == <<"values-", "de">>
DRAWABLE == <<"drawable">>
NOTES    == <<"values-", "notes">>

\* ENGLISH_FILE (line 5) is the strings.xml of the directory values of
\* VALUES_DIR (line 6).
ENGLISH_DIR == VALUES

\* An entry of VALUES_DIR: a directory or not, whether it holds a
\* strings.xml, and the bytes of that file.
Absent      == [isdir |-> TRUE, exists |-> FALSE, bytes |-> <<>>]
File(bytes) == [isdir |-> TRUE, exists |-> TRUE, bytes |-> bytes]
NotADir     == [isdir |-> FALSE, exists |-> FALSE, bytes |-> <<>>]

\* The lines an English file is made of here.
Entry(key, value) == <<LT, SP, NAMEEQ, QUOTE, key, QUOTE, GT>> \o value \o <<ETAG, GT>>

EnglishLines ==
    { Entry("a", <<"Hello">>) \o <<LF>>,
      <<SP, LT, SP, "translatable=", QUOTE, "false", QUOTE, SP, NAMEEQ, QUOTE,
        "b", QUOTE, GT, "Bye", ETAG, GT, SP, CR, LF>>,
      <<"<!--", SP, "c", SP, "--", GT, CR, LF>>,
      <<LT, SP, NAMEEQ, QUOTE, "e", QUOTE, "/", GT, LF>> }

\* The English files: at most MaxLines of these lines.
MaxLines == 2

RECURSIVE FilesOf(_, _)
FilesOf(lines, n) ==
    IF n = 0 THEN {<<>>}
    ELSE LET shorter == FilesOf(lines, n - 1)
         IN  shorter \cup {l \o f : l \in lines, f \in {g \in shorter : TRUE}}

EnglishFiles == FilesOf(EnglishLines, MaxLines)

\* The files a locale directory starts with.
TargetFiles ==
    { <<>>,
      Entry("a", <<"Hola">>) \o <<LF>>,
      Entry("a", <<"Hola">>) \o <<LF>> \o Entry("old", <<"Viejo">>) \o <<LF>>,
      Entry("b", <<"Adios", LF, "Amigo">>),
      <<LT, SP, NAMEEQ, QUOTE, "e", QUOTE, "/", GT, LF>> \o Entry("a", <<"Hola">>) \o <<LF>> }

\* The number of runs of main that are followed.
MaxRuns == 2

--------------------------------------------------------------------------
VARIABLES
    fs,           \* VALUES_DIR: directory name -> entry
    pc,           \* main: "idle", "loop", "done", "error" (English file
                  \* not found) or "raised" (an exception ended the run)
    target_dirs,  \* main's list of line 95
    pos,          \* the place of the for loop of line 98 in target_dirs
    runs,         \* the runs of main started so far
    at_start,     \* fs when the current run of main started
    listed,       \* the current run has called os.listdir
    attempted,    \* the directories sync_file was called on in this run
    opened,       \* the directories whose strings.xml this run has opened
    wrote,        \* the directories whose strings.xml this run has written
    hist          \* directory -> its completed sync_file calls, the latest
                  \* first, at most two: the English bytes read, the target
                  \* bytes before, new_lines, and the bytes written

vars == <<fs, pc, target_dirs, pos, runs, at_start, listed, attempted, opened,
          wrote, hist>>

\* The tree holds the English directory and one locale directory, with any
\* English file and any target file.
InitContents ==
    \E english \in EnglishFiles, target \in {Absent} \cup {File(t) : t \in TargetFiles} :
        fs = (ENGLISH_DIR :> File(english)) @@ (FR :> target)

\* The tree holds several entries; the English file may be missing.
InitTree ==
    \E english \in {Absent, File(Entry("a", <<"Hello">>) \o <<LF>>)},
       fr \in {Absent, File(<<>>), File(Entry("a", <<"Hola">>) \o <<LF>>), File(<<BADBYTE>>)},
       de \in {Absent, File(<<>>), File(Entry("a", <<"Hallo">>) \o <<LF>>), File(<<BADBYTE>>)} :
        fs = (ENGLISH_DIR :> english) @@ (FR :> fr) @@ (DE :> de)
             @@ (DRAWABLE :> File(Entry("a", <<"Hola">>) \o <<LF>>))
             @@ (NOTES :> NotADir)

Init ==
    /\ (InitContents \/ InitTree)
    /\ pc = "idle"
    /\ target_dirs = <<>>
    /\ pos = 1
    /\ runs = 0
    /\ at_start = fs
    /\ listed = FALSE
    /\ attempted = {}
    /\ opened = {}
    /\ wrote = {}
    /\ hist = [d \in DOMAIN fs |-> <<>>]

--------------------------------------------------------------------------
\* main (lines 89-101)

\* english_found without the test of line 91.
english_assumed(files) == TRUE

\* os.path.exists(ENGLISH_FILE) (line 91)
english_found(files) ==
    ENGLISH_DIR \in DOMAIN files /\ files[ENGLISH_DIR].exists

\* d.startswith('values-') (lines 33 and 95)
has_prefix(d) == Len(d) >= 1 /\ d[1] = "values-"

\* target_exists without the test of line 37.
target_assumed(files, d) == TRUE

\* os.path.exists(target_file) (line 37)
target_exists(files, d) == d \in DOMAIN files /\ files[d].exists

\* The lists os.listdir can return for a set of names: any order.
Orders(S) ==
    {o \in [1..Cardinality(S) -> S] :
        \A i, j \in 1..Cardinality(S) : i # j => o[i] # o[j]}

\* Lines 90-96: the English file is looked for, and the target
\* directories are listed when it is there.
main_start ==
    /\ pc \in {"idle", "done", "error", "raised"}
    /\ runs < MaxRuns
    /\ runs' = runs + 1
    /\ at_start' = fs
    /\ attempted' = {}
    /\ opened' = {}
    /\ wrote' = {}
    /\ pos' = 1
    /\ IF english_found(fs)
       THEN /\ \E o \in Orders({d \in DOMAIN fs : has_prefix(d) /\ fs[d].isdir}) :
                   target_dirs' = o
            /\ listed' = TRUE
            /\ pc' = "loop"
       ELSE /\ target_dirs' = <<>>
            /\ listed' = FALSE
            /\ pc' = "error"
    /\ UNCHANGED <<fs, hist>>

\* What a completed call of sync_file leaves in hist.
Done(english, before, lines, after) ==
    [english |-> english, before |-> before, lines |-> lines, after |-> after]

\* hist keeps the latest two calls.
LastTwo(calls) == IF Len(calls) > 2 THEN SubSeq(calls, 1, 2) ELSE calls

\* sync_file(d) (lines 31-87), called by the loop of lines 98-99.  The
\* call returns early (lines 34, 38), raises (the target or the English
\* file cannot be read: lines 17, 46-47), or rewrites the target.
sync_file(d) ==
    /\ pc = "loop"
    /\ pos <= Len(target_dirs)
    /\ d = target_dirs[pos]
    /\ attempted' = attempted \cup {d}
    /\ IF ~has_prefix(d) \/ ~target_exists(fs, d)
       THEN /\ pos' = pos + 1
            /\ UNCHANGED <<fs, pc, opened, wrote, hist>>
       ELSE IF ~Decodable(fs[d].bytes)
                \/ ~english_found(fs)
                \/ ~Decodable(fs[ENGLISH_DIR].bytes)
       THEN /\ pc' = "raised"
            /\ opened' = opened \cup {d}
            /\ UNCHANGED <<fs, pos, wrote, hist>>
       ELSE \E current_translations \in {load_translations(fs[d].exists, fs[d].bytes)},
               lines \in {SplitLines(ReadText(fs[ENGLISH_DIR].bytes))} :
            \E out \in {new_lines(lines, current_translations)} :
            \E after \in {WriteLines(out)} :
                /\ fs' = [fs EXCEPT ![d] = File(after)]
                /\ hist' = [hist EXCEPT ![d] =
                              LastTwo(<<Done(fs[ENGLISH_DIR].bytes, fs[d].bytes,
                                             out, after)>> \o @)]
                /\ opened' = opened \cup {d}
                /\ wrote' = wrote \cup {d}
                /\ pos' = pos + 1
                /\ pc' = pc
    /\ UNCHANGED <<target_dirs, runs, at_start, listed>>

\* Line 101: the loop is over.
main_finish ==
    /\ pc = "loop"
    /\ pos > Len(target_dirs)
    /\ pc' = "done"
    /\ UNCHANGED <<fs, target_dirs, pos, runs, at_start, listed, attempted,
                   opened, wrote, hist>>

\* Between two runs the wording of the English file is revised: Hello
\* becomes Hi.
Revised(bytes) == [i \in 1..Len(bytes) |-> IF bytes[i] = "Hello" THEN "Hi" ELSE bytes[i]]

revise_english ==
    /\ pc = "done"
    /\ english_found(fs)
    /\ Revised(fs[ENGLISH_DIR].bytes) # fs[ENGLISH_DIR].bytes
    /\ fs' = [fs EXCEPT ![ENGLISH_DIR].bytes = Revised(@)]
    /\ UNCHANGED <<pc, target_dirs, pos, runs, at_start, listed, attempted,
                   opened, wrote, hist>>

Next ==
    \/ main_start
    \/ \E d \in DOMAIN fs : sync_file(d)
    \/ main_finish
    \/ revise_english

Spec == Init /\ [][Next]_vars

--------------------------------------------------------------------------
\* What the properties below speak of.

\* The completed calls of sync_file that hist holds.
Calls == UNION {{hist[d][i] : i \in 1..Len(hist[d])} : d \in DOMAIN hist}

\* The English lines a call read, as readlines gave them.
LinesRead(call) == SplitLines(ReadText(call.english))

\* The translation table of the target before a call.
TableBefore(call) == load_translations(TRUE, call.before)

\* The lines of a file as they stand in it, each with its own terminator
\* (\n, \r\n or \r).
RECURSIVE RawLines(_)
RawLines(bytes) ==
    IF bytes = <<>> THEN <<>>
    ELSE LET E == {p \in 1..Len(bytes) : bytes[p] \in {CR, LF}}
             p == IF E = {} THEN 0 ELSE CHOOSE x \in E : \A y \in E : x <= y
             n == IF p > 0 /\ bytes[p] = CR /\ p < Len(bytes) /\ bytes[p + 1] = LF
                  THEN p + 1 ELSE p
         IN  IF n = 0 THEN <<bytes>>
             ELSE <<SubSeq(bytes, 1, n)>> \o RawLines(SubSeq(bytes, n + 1, Len(bytes)))

\* sub stands somewhere in text.
Occurs(sub, text) ==
    \E p \in 0..(Len(text) - Len(sub)) : SubSeq(text, p + 1, p + Len(sub)) = sub

\* The entry of a matching line with another value: the tag, the value,
\* the closing tag.
EntryWith(line, m, value) ==
    SubSeq(line, m.start, m.g) \o value \o SubSeq(line, m.c, m.c + 1)

\* A matching line with another value and nothing else changed.
LineWith(line, m, value) ==
    SubSeq(line, 1, m.g) \o value \o SubSeq(line, m.c, Len(line))

\* The value of a matching English line behind the pending marker.
Pending(line, m) == <<"TODO: ">> \o SubSeq(line, m.g + 1, m.c - 1)

\* The values a matching English line may be written with: the
\* translation its key had before the call, or its own value marked.
Allowed(call, line, m) ==
    LET key == KeyOf(line, m)
    IN  {Pending(line, m)} \cup
        (IF key \in DOMAIN TableBefore(call) THEN {TableBefore(call)[key]} ELSE {})

\* The text name="key" stands in a file as it is read.
NamedIn(key, bytes) ==
    Occurs(<<NAMEEQ, QUOTE>> \o key \o <<QUOTE>>, ReadText(bytes))

\* The keys of the English lines a call read.
KeysRead(call) ==
    {KeyOf(l, Search(l, 1, FALSE)) :
        l \in {x \in {LinesRead(call)[n] : n \in 1..Len(LinesRead(call))} :
                  Search(x, 1, FALSE).found}}

--------------------------------------------------------------------------
\* C1: after sync_file has rewritten a target, every key of an entry line
\* of the English file stands in the target, in the tag the English line
\* gives it, with either the value the target had for that key before or
\* the English value behind "TODO: "; when the target was empty, with the
\* English value behind "TODO: ".
C1_EveryKeyPresent ==
    \A call \in Calls :
        \A n \in 1..Len(LinesRead(call)) :
            LET line == LinesRead(call)[n]
                m    == Search(line, 1, FALSE)
            IN  m.found =>
                  /\ \E value \in Allowed(call, line, m) :
                         Occurs(EntryWith(line, m, value), call.after)
                  /\ call.before = <<>> =>
                         Occurs(EntryWith(line, m, Pending(line, m)), call.after)

\* One call found the target empty and wrote a pending entry, another
\* found a translation of an English key.
C1_Witness ==
    /\ \E call \in Calls : call.before = <<>> /\ KeysRead(call) # {}
    /\ \E call \in Calls : KeysRead(call) \cap DOMAIN TableBefore(call) # {}

\* C2: a key that an English entry line names and that the translation
\* table of the target held before the call is written with exactly that
\* translation: the line written is the English line with the translation
\* as its value.
C2_TranslationKept ==
    \A call \in Calls :
        /\ Len(call.lines) = Len(LinesRead(call))
        /\ \A n \in 1..Len(LinesRead(call)) :
            LET line == LinesRead(call)[n]
                m    == Search(line, 1, FALSE)
            IN  (m.found /\ KeyOf(line, m) \in DOMAIN TableBefore(call)) =>
                  /\ call.lines[n] = LineWith(line, m, TableBefore(call)[KeyOf(line, m)])
                  /\ Occurs(EntryWith(line, m, TableBefore(call)[KeyOf(line, m)]),
                            call.after)

\* A call kept a translation that differs from the English value.
C2_Witness ==
    \E call \in Calls :
        \E n \in 1..Len(LinesRead(call)) :
            LET line == LinesRead(call)[n]
                m    == Search(line, 1, FALSE)
            IN  /\ m.found
                /\ KeyOf(line, m) \in DOMAIN TableBefore(call)
                /\ TableBefore(call)[KeyOf(line, m)] # ValueOf(line, m)

\* C3: a second sync_file on the same target, with the English file as it
\* was for the first, writes the bytes the first wrote.
C3_Idempotent ==
    \A d \in DOMAIN hist :
        (Len(hist[d]) = 2 /\ hist[d][1].english = hist[d][2].english) =>
            hist[d][1].after = hist[d][2].after

C5_OtherLinesVerbatim ==
    \A call \in Calls :
        /\ Len(call.lines) = Len(RawLines(call.english))
        /\ \A n \in 1..Len(RawLines(call.english)) :
              ~Search(RawLines(call.english)[n], 1, FALSE).found =>
                  call.lines[n] = RawLines(call.english)[n]

\* C6: when the English file is missing as main starts, the run ends with
\* the error, having listed no directory, called sync_file on none, and
\* opened or written no file.
C6_MissingEnglishStops ==
    (runs > 0 /\ ~at_start[ENGLISH_DIR].exists) =>
        /\ pc = "error"
        /\ ~listed
        /\ target_dirs = <<>>
        /\ attempted = {}
        /\ opened = {}
        /\ wrote = {}
        /\ fs = at_start

\* A run has ended with the error in a tree that holds a locale directory
\* with a strings.xml.
C6_Witness ==
    /\ pc = "error"
    /\ \E d \in DOMAIN fs : d[1] = "values-" /\ fs[d].isdir /\ fs[d].exists

\* C7: a run that found the English file ends complete, with sync_file
\* called on every directory of target_dirs.
C7_AlwaysCompletes ==
    (pc \in {"done", "error", "raised"} /\ at_start[ENGLISH_DIR].exists) =>
        /\ pc = "done"
        /\ attempted = {target_dirs[i] : i \in 1..Len(target_dirs)}

\* C8: an English entry line is written with its bytes as they stand in the
\* English file, but for the value between the tag and the closing tag: the
\* text up to the end of the opening tag and the text from the closing tag
\* to the end of the line, the line terminator included, are the same.
C8_OnlyValueReplaced ==
    \A call \in Calls :
        /\ Len(call.lines) = Len(RawLines(call.english))
        /\ \A n \in 1..Len(RawLines(call.english)) :
            LET line == RawLines(call.english)[n]
                m    == Search(line, 1, FALSE)
                out  == call.lines[n]
                tail == Len(line) - m.c
            IN  m.found =>
                  /\ Len(out) >= m.g + tail + 1
                  /\ SubSeq(out, 1, m.g) = SubSeq(line, 1, m.g)
                  /\ SubSeq(out, Len(out) - tail, Len(out)) = SubSeq(line, m.c, Len(line))

\* C9: a run writes the strings.xml of a directory only if its name starts
\* with values- and it held a strings.xml when the run started; the run
\* leaves every other directory as it was and creates no strings.xml.
C9_WritesOnlyExistingTargets ==
    \A d \in DOMAIN fs :
        /\ d \in wrote => (d[1] = "values-" /\ at_start[d].isdir /\ at_start[d].exists)
        /\ (d \notin wrote /\ d # ENGLISH_DIR) => fs[d] = at_start[d]
        /\ fs[d].exists = at_start[d].exists

\* A run is over that wrote one locale file, passed a locale directory
\* without a strings.xml, and left a directory without the prefix that
\* holds one.
C9_Witness ==
    /\ pc = "done"
    /\ wrote # {}
    /\ \E d \in attempted : ~fs[d].exists
    /\ \E d \in DOMAIN fs : d[1] # "values-" /\ d # ENGLISH_DIR /\ fs[d].exists

\* C10: once a call has written "TODO: " and the English value for a key,
\* the next call on that target writes that same text for the key, also
\* when the English value has changed in between.
C10_PendingSticks ==
    \A d \in DOMAIN hist :
        Len(hist[d]) = 2 =>
            LET first  == hist[d][2]
                second == hist[d][1]
                marked(key) ==
                    {Pending(l, Search(l, 1, FALSE)) :
                        l \in {x \in {LinesRead(first)[n] : n \in 1..Len(LinesRead(first))} :
                                  /\ Search(x, 1, FALSE).found
                                  /\ KeyOf(x, Search(x, 1, FALSE)) = key}}
            IN  \A n \in 1..Len(LinesRead(second)) :
                    LET line == LinesRead(second)[n]
                        m    == Search(line, 1, FALSE)
                    IN  (/\ m.found
                         /\ KeyOf(line, m) \in KeysRead(first)
                         /\ KeyOf(line, m) \notin DOMAIN TableBefore(first)) =>
                            \E value \in marked(KeyOf(line, m)) :
                                second.lines[n] = LineWith(line, m, value)

==========================================================================
